---- MODULE Spec2Model ----
(***************************************************************************)
(* Model of fixJsonBible.mjs: the verse repair pass (processVerses), the   *)
(* host loop that applies it to every chapter of every input file, and the *)
(* grouping pass of logGroupedErrors.                                      *)
(*                                                                         *)
(* Three specifications share the module:                                  *)
(*   Spec      one chapter going through processVerses, statement by       *)
(*             statement, followed by the host's "if (result.fixed)" step; *)
(*   SpecHost  the batch run over the input files, with the flags;         *)
(*   SpecGroup the grouping pass over a defect log.                        *)
(***************************************************************************)
EXTENDS Integers, Sequences, FiniteSets, TLC

VARIABLES
    \* ---- processVerses on one chapter (Spec) ----
    verses,          \* the objects of the array passed in; verses[k] is mutated in place
    verses0,         \* the same array as it was at entry
    context,         \* `${book.name} ${chapter.number}`
    verseLog,        \* the log array passed in (the host's fileLog)
    log0,            \* the log as it was at entry
    i,               \* position of the for-of loop in verses
    result,          \* references (indices into verses) of the retained verses
    lastVerse,       \* reference to the last retained verse, or null
    expectedNumber,  \* <<>> for null, <<n>> for the number n
    fixed,
    assigned,        \* references whose endNumber this pass has assigned
    chapter,         \* chapter.verses of the host, as references
    chapterFixed,    \* the host's bibleWasModified, for this one chapter
    pc,
    \* ---- the grouping pass of logGroupedErrors (SpecGroup) ----
    gLog,            \* the entries passed in, as they were at entry
    gHeap,           \* the entry objects: gHeap[k], k <= Len(gLog), is the k-th entry passed in
    grouped,         \* references (indices into gHeap) of the grouped entries
    gi,              \* position of the for-of loop in the log
    regrouped,       \* the grouped entries of a second pass over the first pass's output
    gpc,
    \* ---- the batch run (SpecHost) ----
    FLAGS,           \* DRY_RUN, WRITE_LOG
    dirs,            \* the directories that exist
    mkdirs,          \* the directories this run has created
    writes,          \* the files this run has written
    nFiles,          \* inputFiles.length
    f,               \* position of the for-of loop in inputFiles
    content,         \* what readFileSync returned for the file at f
    bibleWrapper,
    fileLog,
    bibleWasModified,
    reported,        \* the grouped entries logGroupedErrors printed for the file at f
    fixedCount,
    invalidCount,
    logLines,        \* logLines.length
    hpc

engineVars == <<verses, verses0, context, verseLog, log0, i, result, lastVerse,
                expectedNumber, fixed, assigned, chapter, chapterFixed, pc>>

groupVars == <<gLog, gHeap, grouped, gi, regrouped, gpc>>

hostVars == <<FLAGS, dirs, mkdirs, writes, nFiles, f, content, bibleWrapper, fileLog,
              bibleWasModified, reported, fixedCount, invalidCount, logLines, hpc>>

vars == <<engineVars, groupVars, hostVars>>

----------------------------------------------------------------------------
(* Bounds of the model *)

MaxVerses == 3
MaxNum == 5
MaxLog == 3
MaxRange == 3
MaxFiles == 2
MaxChapters == 2

(* let lastVerse = null *)
null == 0

----------------------------------------------------------------------------
(* Values *)

Whitespace == {" ", "\t", "\n"}

RECURSIVE TrimStart(_)
TrimStart(s) ==
    IF s # <<>> /\ Head(s) \in Whitespace THEN TrimStart(Tail(s)) ELSE s

RECURSIVE TrimEnd(_)
TrimEnd(s) ==
    IF s # <<>> /\ s[Len(s)] \in Whitespace
    THEN TrimEnd(SubSeq(s, 1, Len(s) - 1))
    ELSE s

(* A mutant of Trim: the text is compared untrimmed. *)
TrimNothing(s) == s

(* String.prototype.trim: a text is a sequence of characters. *)
Trim(s) == TrimEnd(TrimStart(s))

HasText(v) == "text" \in DOMAIN v
HasEndNumber(v) == "endNumber" \in DOMAIN v

(* The texts a verse of the input may carry. *)
Texts == {<<>>, <<" ">>, <<"A">>}

(* The verses of an input chapter: with a text, without the text field, *)
(* and a first verse that already stands for the range 1-2.             *)
VerseValues ==
    {v : v \in
        {[number |-> n, text |-> t] : n \in 1..MaxNum, t \in Texts}
          \cup {[number |-> n] : n \in 1..MaxNum}
          \cup {[number |-> 1, text |-> <<"A">>, endNumber |-> 2]}}

Chapters == UNION {[1..n -> VerseValues] : n \in 0..MaxVerses}

Contexts == {<<"Gen", 1>>, <<"Gen", 2>>}

(* A mutant of SetEndNumber: an endNumber already present is kept. *)
SetEndNumberOnce(v, e) ==
    [k \in DOMAIN v \cup {"endNumber"} |->
        IF k = "endNumber" THEN (IF "endNumber" \in DOMAIN v THEN v.endNumber ELSE e)
        ELSE v[k]]

(* lastVerse.endNumber = e : the object gains or overwrites the field. *)
SetEndNumber(v, e) ==
    [k \in DOMAIN v \cup {"endNumber"} |-> IF k = "endNumber" THEN e ELSE v[k]]

----------------------------------------------------------------------------
(* processVerses, statement by statement *)

(* A mutant of IsGap: a verse carrying the expected number counts as a gap. *)
IsGapFromExpected(v, expected, last) == v.number >= expected /\ last # null

(* if (v.number > expectedNumber && lastVerse) *)
IsGap(v, expected, last) == v.number > expected /\ last # null

(* A mutant of GapEnd: the range runs up to the arriving verse itself. *)
GapEndAtVerse(v) == v.number

(* v.number - 1, the last missing number *)
GapEnd(v) == v.number - 1

MissingEntry(expected, v, ctx) ==
    [type |-> "missing", start |-> expected, end |-> GapEnd(v), context |-> ctx]

(* if (!v.text || v.text.trim() === "") *)
IsEmpty(v) == \/ ~HasText(v)
              \/ v.text = <<>>
              \/ Trim(v.text) = <<>>

(* A mutant of EmptyEnd: the range stops one short of the empty verse. *)
EmptyEndBefore(v) == v.number - 2

(* lastVerse.endNumber = v.number *)
EmptyEnd(v) == v.number

EmptyEntry(v, ctx) ==
    [type |-> "empty", start |-> v.number, end |-> v.number, context |-> ctx]

(* The local state of one call, as a record. *)
Locals == [verses |-> verses, result |-> result, lastVerse |-> lastVerse,
           expectedNumber |-> expectedNumber, fixed |-> fixed,
           verseLog |-> verseLog, assigned |-> assigned]

Entry(vs, log) ==
    [verses |-> vs, result |-> <<>>, lastVerse |-> null,
     expectedNumber |-> <<>>, fixed |-> FALSE, verseLog |-> log, assigned |-> {}]

(* Lines 163-176: the expectation is initialised, then the gap check. *)
GapCheck(st, k, ctx) ==
    LET v == st.verses[k]
        expected == IF st.expectedNumber = <<>> THEN v.number ELSE st.expectedNumber[1]
    IN  IF IsGap(v, expected, st.lastVerse)
        THEN [st EXCEPT !.expectedNumber = <<expected>>,
                        !.fixed = TRUE,
                        !.verses[st.lastVerse] = SetEndNumber(@, GapEnd(v)),
                        !.assigned = @ \cup {st.lastVerse},
                        !.verseLog = Append(@, MissingEntry(expected, v, ctx))]
        ELSE [st EXCEPT !.expectedNumber = <<expected>>]

(* Lines 178-196: the empty check, or the verse is retained; then the *)
(* expectation advances.                                              *)
TextCheck(st, k, ctx) ==
    LET v == st.verses[k]
        next == <<v.number + 1>>
    IN  IF IsEmpty(v)
        THEN IF st.lastVerse # null
             THEN [st EXCEPT !.expectedNumber = next,
                             !.fixed = TRUE,
                             !.verses[st.lastVerse] = SetEndNumber(@, EmptyEnd(v)),
                             !.assigned = @ \cup {st.lastVerse},
                             !.verseLog = Append(@, EmptyEntry(v, ctx))]
             ELSE [st EXCEPT !.expectedNumber = next]
        ELSE [st EXCEPT !.expectedNumber = next,
                        !.result = Append(@, k),
                        !.lastVerse = k]

RECURSIVE Loop(_, _, _)
Loop(st, k, ctx) ==
    IF k > Len(st.verses) THEN st
    ELSE Loop(TextCheck(GapCheck(st, k, ctx), k, ctx), k + 1, ctx)

(* The references of a list, read through the array they point into. *)
Deref(refs, vs) == [k \in 1..Len(refs) |-> vs[refs[k]]]

(* The whole call: what it returns, and what it did to its arguments. *)
processVerses(vs, ctx, log) ==
    LET st == Loop(Entry(vs, log), 1, ctx)
    IN  [verses |-> Deref(st.result, st.verses), fixed |-> st.fixed,
         verseLog |-> st.verseLog, argument |-> st.verses]

----------------------------------------------------------------------------
(* logGroupedErrors: the grouping pass *)

(* The verse numbers the entries of a log range over. *)
LogNumbers == 5..(4 + MaxRange)

(* An 'empty' entry covers one number, a 'missing' entry a range. *)
LogEntries ==
    {e : e \in
        {[type |-> "empty", start |-> a, end |-> a, context |-> c] :
            a \in LogNumbers, c \in Contexts}
          \cup {[type |-> "missing", start |-> r[1], end |-> r[2], context |-> c] :
                  r \in {q \in LogNumbers \X LogNumbers : q[1] <= q[2]},
                  c \in Contexts}}

Logs == UNION {[1..n -> LogEntries] : n \in 0..MaxLog}

(* A mutant of ShouldExtend: the context is not compared. *)
ShouldExtendAnyContext(last, entry) ==
    last.type = entry.type /\ last.end + 1 = entry.start

(* last.type === entry.type && last.context === entry.context && *)
(* last.end + 1 === entry.start                                   *)
ShouldExtend(last, entry) ==
    /\ last.type = entry.type
    /\ last.context = entry.context
    /\ last.end + 1 = entry.start

(* A mutant of LastGrouped: the first group is taken for the last. *)
FirstGrouped(g) == 1

(* grouped[grouped.length - 1], as a position of the list *)
LastGrouped(g) == Len(g)

(* grouped.push({ ...entry }): a new object holding the entry's fields *)
PushCopy(gs, ref) ==
    [gs EXCEPT !.heap = Append(@, gs.heap[ref]),
               !.grouped = Append(@, Len(gs.heap) + 1)]

(* One iteration of the grouping loop, at the entry object ref. *)
GroupStep(gs, ref) ==
    IF Len(gs.grouped) > 0
       /\ ShouldExtend(gs.heap[gs.grouped[LastGrouped(gs.grouped)]], gs.heap[ref])
    THEN [gs EXCEPT !.heap[gs.grouped[LastGrouped(gs.grouped)]].end = gs.heap[ref].end]
    ELSE PushCopy(gs, ref)

RECURSIVE GroupLoop(_, _, _)
GroupLoop(gs, k, n) ==
    IF k > n THEN gs ELSE GroupLoop(GroupStep(gs, k), k + 1, n)

(* The grouped entries of a log, as values. *)
Grouped(log) ==
    LET gs == GroupLoop([heap |-> log, grouped |-> <<>>], 1, Len(log))
    IN  Deref(gs.grouped, gs.heap)

GroupStart(log) ==
    /\ gLog = log
    /\ gHeap = log
    /\ grouped = <<>>
    /\ gi = 1
    /\ regrouped = <<>>
    /\ gpc = "scan"

GroupIdle == GroupStart(<<>>)

----------------------------------------------------------------------------
(* The batch run: values *)

JsNull == [t |-> "null"]
JsUndefined == [t |-> "undefined"]
JsNumber == [t |-> "number"]
JsString == [t |-> "string"]
JsArray(items) == [t |-> "array", items |-> items]

(* typeof x === "object" *)
TypeofObject(x) == x.t \in {"object", "array", "null"}

(* The chapters of the sample documents: a clean chapter, an empty verse   *)
(* after a kept one, the same one number later, a leading empty verse, and *)
(* a gap.                                                                  *)
SampleChapters ==
    { [number |-> 1, verses |-> <<[number |-> 1, text |-> <<"A">>], [number |-> 2, text |-> <<"A">>]>>],
      [number |-> 1, verses |-> <<[number |-> 4, text |-> <<"A">>], [number |-> 5, text |-> <<>>]>>],
      [number |-> 1, verses |-> <<[number |-> 5, text |-> <<"A">>], [number |-> 6, text |-> <<" ">>]>>],
      [number |-> 2, verses |-> <<[number |-> 1, text |-> <<>>], [number |-> 2, text |-> <<"A">>]>>],
      [number |-> 2, verses |-> <<[number |-> 1, text |-> <<"A">>], [number |-> 4, text |-> <<"A">>]>>] }

JsBook(chs) == [t |-> "object", name |-> "Gen", chapters |-> chs]

SampleBooks == {JsBook(chs) : chs \in UNION {[1..n -> SampleChapters] : n \in 0..MaxChapters}}

(* The top-level objects: without books, with books that cannot be        *)
(* iterated, with no book, with a null book, with one book.               *)
SampleObjects ==
    { [t |-> "object"],
      [t |-> "object", books |-> [t |-> "object"]],
      [t |-> "object", books |-> JsArray(<<>>)],
      [t |-> "object", books |-> JsArray(<<JsNull>>)] }
      \cup {[t |-> "object", books |-> JsArray(<<b>>)] : b \in SampleBooks}

(* What JSON.parse can return for a file that parses. *)
SampleValues ==
    { JsNull, JsNumber, JsString,
      JsArray(<<>>),
      JsArray(<<JsNumber, [t |-> "object"]>>),
      JsArray(<<JsString, JsNull>>),
      JsArray(<<JsString, JsNumber>>),
      JsArray(<<JsString, JsArray(<<>>)>>),
      JsArray(<<JsString, [t |-> "object"], [t |-> "object"]>>) }
      \cup SampleObjects
      \cup {JsArray(<<JsString, o>>) : o \in SampleObjects}

(* A file's bytes: not JSON, or the JSON text of a value. *)
Contents ==
    {c : c \in {[valid |-> FALSE]} \cup {[valid |-> TRUE, raw |-> r] : r \in SampleValues}}

NoContent == [valid |-> FALSE]
NoWrapper == [type |-> "none"]

----------------------------------------------------------------------------
(* The batch run: functions *)

readBibleFile(c) ==
    IF ~c.valid
    THEN [ok |-> FALSE, message |-> "Invalid JSON syntax"]
    ELSE LET raw == c.raw
             isFsbStructure ==
                 /\ raw.t = "array"
                 /\ Len(raw.items) = 2
                 /\ raw.items[1].t = "string"
                 /\ TypeofObject(raw.items[2])
                 /\ raw.items[2] # JsNull
         IN  IF isFsbStructure
             THEN [ok |-> TRUE,
                   wrapper |-> [type |-> "fsb", id |-> raw.items[1], data |-> raw.items[2]]]
             ELSE IF TypeofObject(raw) /\ raw # JsNull /\ raw.t # "array"
             THEN [ok |-> TRUE, wrapper |-> [type |-> "json", id |-> JsNull, data |-> raw]]
             ELSE [ok |-> FALSE, message |-> "Unknown structure"]

(* x.books : undefined when the value has no such property *)
BooksOf(data) == IF "books" \in DOMAIN data THEN data.books ELSE JsUndefined

(* A mutant of Modified: the flag follows the last chapter alone. *)
ModifiedLast(was, fix) == fix

(* if (result.fixed) { ...; bibleWasModified = true; } *)
Modified(was, fix) == was \/ fix

(* for (const chapter of book.chapters || []) : acc holds the chapters *)
(* done, the file's log and bibleWasModified.                          *)
RECURSIVE ProcessChapters(_, _, _, _)
ProcessChapters(chs, k, name, acc) ==
    IF k > Len(chs) THEN acc
    ELSE LET ch == chs[k]
             r == processVerses(ch.verses, <<name, ch.number>>, acc.fileLog)
             after == [ch EXCEPT !.verses = IF r.fixed THEN r.verses ELSE r.argument]
         IN  ProcessChapters(chs, k + 1, name,
                             [chapters |-> Append(acc.chapters, after),
                              fileLog |-> r.verseLog,
                              modified |-> Modified(acc.modified, r.fixed)])

(* for (const book of bible.books || []) : reading a property of a null *)
(* book throws a TypeError.                                             *)
RECURSIVE ProcessBooks(_, _, _)
ProcessBooks(books, k, acc) ==
    IF k > Len(books) THEN acc
    ELSE IF books[k] = JsNull THEN [acc EXCEPT !.threw = TRUE]
    ELSE LET b == books[k]
             r == ProcessChapters(b.chapters, 1, b.name,
                                  [chapters |-> <<>>, fileLog |-> acc.fileLog,
                                   modified |-> acc.modified])
         IN  ProcessBooks(books, k + 1,
                          [threw |-> FALSE,
                           books |-> Append(acc.books, [b EXCEPT !.chapters = r.chapters]),
                           fileLog |-> r.fileLog,
                           modified |-> r.modified])

(* Lines 248-262 on the data of one file. An object without an iterator *)
(* in the place of the books throws a TypeError.                        *)
Process(data) ==
    LET books == BooksOf(data)
        none == [threw |-> FALSE, books |-> <<>>, fileLog |-> <<>>, modified |-> FALSE]
    IN  IF books = JsUndefined THEN [none EXCEPT !.books = JsUndefined]
        ELSE IF books.t # "array" THEN [none EXCEPT !.threw = TRUE]
        ELSE LET r == ProcessBooks(books.items, 1, none)
             IN  [r EXCEPT !.books = JsArray(r.books)]

(* writeLog: the line is buffered only under --log *)
writeLog(lines, n) == IF FLAGS.WRITE_LOG THEN lines + n ELSE lines

OutputDir == "Fixed"
LogsDir == "logs"
InputDir == "Converted"

(* path.join(OUTPUT_DIR, `fixed_${file}`) *)
OutputPath(k) == [dir |-> OutputDir, name |-> <<"fixed_", k>>]

(* path.join(LOGS_DIR, `fix-log-${timestamp()}.txt`) *)
LogFilePath == [dir |-> LogsDir, name |-> <<"fix-log", 0>>]

HostStart(flags, ds, n) ==
    /\ FLAGS = flags
    /\ dirs = ds
    /\ mkdirs = {}
    /\ writes = {}
    /\ nFiles = n
    /\ f = 0
    /\ content = NoContent
    /\ bibleWrapper = NoWrapper
    /\ fileLog = <<>>
    /\ bibleWasModified = FALSE
    /\ reported = <<>>
    /\ fixedCount = 0
    /\ invalidCount = 0
    /\ logLines = 0
    /\ hpc = "start"

HostIdle == HostStart([DRY_RUN |-> FALSE, WRITE_LOG |-> FALSE], {}, 0)

----------------------------------------------------------------------------
(* Spec: one chapter *)

EngineStart(vs, log) ==
    /\ verses0 = vs
    /\ verses = verses0
    /\ context = <<"Gen", 1>>
    /\ log0 = log
    /\ verseLog = log0
    /\ i = 1
    /\ result = <<>>
    /\ lastVerse = null
    /\ expectedNumber = <<>>
    /\ fixed = FALSE
    /\ assigned = {}
    /\ chapter = [k \in 1..Len(verses0) |-> k]
    /\ chapterFixed = FALSE
    /\ pc = "gap"

EngineIdle == EngineStart(<<>>, <<>>)

(* The log the host passes in: its fileLog, holding an earlier chapter's entry. *)
EarlierLog ==
    <<[type |-> "empty", start |-> 1, end |-> 1, context |-> <<"Gen", 2>>]>>

Init ==
    /\ \E vs \in Chapters : EngineStart(vs, EarlierLog)
    /\ GroupIdle
    /\ HostIdle

Assign(st) ==
    /\ verses' = st.verses
    /\ result' = st.result
    /\ lastVerse' = st.lastVerse
    /\ expectedNumber' = st.expectedNumber
    /\ fixed' = st.fixed
    /\ verseLog' = st.verseLog
    /\ assigned' = st.assigned

Gap ==
    /\ pc = "gap"
    /\ i <= Len(verses)
    /\ Assign(GapCheck(Locals, i, context))
    /\ pc' = "text"
    /\ UNCHANGED <<verses0, context, log0, i, chapter, chapterFixed>>
    /\ UNCHANGED <<groupVars, hostVars>>

Text ==
    /\ pc = "text"
    /\ Assign(TextCheck(Locals, i, context))
    /\ i' = i + 1
    /\ pc' = "gap"
    /\ UNCHANGED <<verses0, context, log0, chapter, chapterFixed>>
    /\ UNCHANGED <<groupVars, hostVars>>

Return ==
    /\ pc = "gap"
    /\ i > Len(verses)
    /\ pc' = "returned"
    /\ UNCHANGED <<verses, verses0, context, verseLog, log0, i, result, lastVerse,
                   expectedNumber, fixed, assigned, chapter, chapterFixed>>
    /\ UNCHANGED <<groupVars, hostVars>>

(* if (result.fixed) { chapter.verses = result.verses; bibleWasModified = true; } *)
Apply ==
    /\ pc = "returned"
    /\ chapter' = IF fixed THEN result ELSE chapter
    /\ chapterFixed' = fixed
    /\ pc' = "done"
    /\ UNCHANGED <<verses, verses0, context, verseLog, log0, i, result, lastVerse,
                   expectedNumber, fixed, assigned>>
    /\ UNCHANGED <<groupVars, hostVars>>

Next == Gap \/ Text \/ Return \/ Apply

Spec == Init /\ [][Next]_vars

----------------------------------------------------------------------------
(* SpecGroup: the grouping pass over a log *)

InitGroup ==
    /\ \E log \in Logs : GroupStart(log)
    /\ EngineIdle
    /\ HostIdle

(* One iteration of "for (const entry of verseLog)". *)
Scan ==
    /\ gpc = "scan"
    /\ gi <= Len(gLog)
    /\ LET gs == GroupStep([heap |-> gHeap, grouped |-> grouped], gi)
       IN  gHeap' = gs.heap /\ grouped' = gs.grouped
    /\ gi' = gi + 1
    /\ UNCHANGED <<gLog, regrouped, gpc>>
    /\ UNCHANGED <<engineVars, hostVars>>

ScanDone ==
    /\ gpc = "scan"
    /\ gi > Len(gLog)
    /\ gpc' = "grouped"
    /\ UNCHANGED <<gLog, gHeap, grouped, gi, regrouped>>
    /\ UNCHANGED <<engineVars, hostVars>>

(* The pass again, over the grouped entries it produced. *)
Regroup ==
    /\ gpc = "grouped"
    /\ regrouped' = Grouped(Deref(grouped, gHeap))
    /\ gpc' = "regrouped"
    /\ UNCHANGED <<gLog, gHeap, grouped, gi>>
    /\ UNCHANGED <<engineVars, hostVars>>

NextGroup == Scan \/ ScanDone \/ Regroup

SpecGroup == InitGroup /\ [][NextGroup]_vars

----------------------------------------------------------------------------
(* SpecHost: the batch run *)

InitHost ==
    /\ \E flags \in [DRY_RUN : BOOLEAN, WRITE_LOG : BOOLEAN],
          ds \in {{}, {InputDir}, {InputDir, OutputDir, LogsDir}},
          n \in 0..MaxFiles :
            /\ (InputDir \notin ds => n = 0)
            /\ HostStart(flags, ds, n)
    /\ EngineIdle
    /\ GroupIdle

(* Lines 86-90: no input folder, two messages, process.exit(1). *)
NoInputDir ==
    /\ hpc = "start"
    /\ InputDir \notin dirs
    /\ logLines' = writeLog(logLines, 2)
    /\ hpc' = "exit"
    /\ UNCHANGED <<FLAGS, dirs, mkdirs, writes, nFiles, f, content, bibleWrapper,
                   fileLog, bibleWasModified, reported, fixedCount, invalidCount>>
    /\ UNCHANGED <<engineVars, groupVars>>

(* if (!FLAGS.DRY_RUN && !fs.existsSync(OUTPUT_DIR)) fs.mkdirSync(OUTPUT_DIR) *)
PrepareOutput ==
    /\ mkdirs' = IF ~FLAGS.DRY_RUN /\ OutputDir \notin dirs
                 THEN mkdirs \cup {OutputDir} ELSE mkdirs
    /\ dirs' = IF ~FLAGS.DRY_RUN THEN dirs \cup {OutputDir} ELSE dirs

(* Lines 93-103: the output folder is prepared, no input file is found, *)
(* one message, process.exit(0).                                        *)
NoInputFiles ==
    /\ hpc = "start"
    /\ InputDir \in dirs
    /\ nFiles = 0
    /\ PrepareOutput
    /\ logLines' = writeLog(logLines, 1)
    /\ hpc' = "exit"
    /\ UNCHANGED <<FLAGS, writes, nFiles, f, content, bibleWrapper,
                   fileLog, bibleWasModified, reported, fixedCount, invalidCount>>
    /\ UNCHANGED <<engineVars, groupVars>>

(* Lines 93-98 and 225-234: the output folder, the three banner lines, *)
(* and the loop over the input files begins.                           *)
Begin ==
    /\ hpc = "start"
    /\ InputDir \in dirs
    /\ nFiles > 0
    /\ PrepareOutput
    /\ logLines' = writeLog(logLines, 3)
    /\ f' = 1
    /\ hpc' = "read"
    /\ UNCHANGED <<FLAGS, writes, nFiles, content, bibleWrapper,
                   fileLog, bibleWasModified, reported, fixedCount, invalidCount>>
    /\ UNCHANGED <<engineVars, groupVars>>

(* The for-of loop moves to the next file, or ends; the variables declared *)
(* in its body end with the iteration.                                    *)
Advance ==
    /\ f' = f + 1
    /\ hpc' = IF f < nFiles THEN "read" ELSE "summary"
    /\ content' = NoContent
    /\ bibleWrapper' = NoWrapper
    /\ fileLog' = <<>>
    /\ bibleWasModified' = FALSE
    /\ reported' = <<>>

(* fs.readFileSync(filePath, "utf8"), in readBibleFile *)
ReadFile ==
    /\ hpc = "read"
    /\ content' \in Contents
    /\ hpc' = "parse"
    /\ UNCHANGED <<FLAGS, dirs, mkdirs, writes, nFiles, f, bibleWrapper, fileLog,
                   bibleWasModified, reported, fixedCount, invalidCount, logLines>>
    /\ UNCHANGED <<engineVars, groupVars>>

(* Lines 239-245: a file readBibleFile throws on is counted, reported *)
(* and skipped.                                                        *)
Read ==
    /\ hpc = "parse"
    /\ LET r == readBibleFile(content)
       IN  IF r.ok
           THEN /\ bibleWrapper' = r.wrapper
                /\ hpc' = "process"
                /\ UNCHANGED <<invalidCount, logLines, f, content, fileLog,
                               bibleWasModified, reported>>
           ELSE /\ invalidCount' = invalidCount + 1
                /\ logLines' = writeLog(logLines, 1)
                /\ Advance
    /\ UNCHANGED <<FLAGS, dirs, mkdirs, writes, nFiles, fixedCount>>
    /\ UNCHANGED <<engineVars, groupVars>>

(* Lines 248-262: every chapter of every book goes through processVerses; *)
(* a TypeError thrown here is caught by nothing and ends the process.     *)
ProcessFile ==
    /\ hpc = "process"
    /\ LET r == Process(bibleWrapper.data)
       IN  IF r.threw
           THEN /\ hpc' = "crashed"
                /\ UNCHANGED <<bibleWrapper, fileLog, bibleWasModified>>
           ELSE /\ hpc' = "report"
                /\ bibleWrapper' =
                      IF r.books = JsUndefined THEN bibleWrapper
                      ELSE [bibleWrapper EXCEPT !.data.books = r.books]
                /\ fileLog' = r.fileLog
                /\ bibleWasModified' = r.modified
    /\ UNCHANGED <<FLAGS, dirs, mkdirs, writes, nFiles, f, content, reported,
                   fixedCount, invalidCount, logLines>>
    /\ UNCHANGED <<engineVars, groupVars>>

(* Lines 265-278: a modified Bible is counted, its grouped defects are *)
(* printed, and outside dry-run it is written.                         *)
Report ==
    /\ hpc = "report"
    /\ IF bibleWasModified
       THEN /\ fixedCount' = fixedCount + 1
            /\ reported' = Grouped(fileLog)
            /\ logLines' = writeLog(logLines, 2 + Len(Grouped(fileLog)))
            /\ writes' = IF ~FLAGS.DRY_RUN THEN writes \cup {OutputPath(f)} ELSE writes
       ELSE UNCHANGED <<fixedCount, reported, logLines, writes>>
    /\ hpc' = "next"
    /\ UNCHANGED <<FLAGS, dirs, mkdirs, nFiles, f, content, bibleWrapper, fileLog,
                   bibleWasModified, invalidCount>>
    /\ UNCHANGED <<engineVars, groupVars>>

(* The body of the loop ends for this file. *)
NextFile ==
    /\ hpc = "next"
    /\ Advance
    /\ UNCHANGED <<FLAGS, dirs, mkdirs, writes, nFiles, fixedCount, invalidCount,
                   logLines>>
    /\ UNCHANGED <<engineVars, groupVars>>

(* Lines 283-295: the summary, then flushLogs. *)
Summary ==
    /\ hpc = "summary"
    /\ logLines' = writeLog(logLines, 1)
    /\ IF FLAGS.WRITE_LOG /\ logLines' > 0
       THEN /\ mkdirs' = IF LogsDir \notin dirs THEN mkdirs \cup {LogsDir} ELSE mkdirs
            /\ dirs' = dirs \cup {LogsDir}
            /\ writes' = writes \cup {LogFilePath}
       ELSE UNCHANGED <<mkdirs, dirs, writes>>
    /\ hpc' = "exit"
    /\ UNCHANGED <<FLAGS, nFiles, f, content, bibleWrapper, fileLog,
                   bibleWasModified, reported, fixedCount, invalidCount>>
    /\ UNCHANGED <<engineVars, groupVars>>

NextHost ==
    NoInputDir \/ NoInputFiles \/ Begin \/ ReadFile \/ Read \/ ProcessFile \/ Report \/ NextFile \/ Summary

SpecHost == InitHost /\ [][NextHost]_vars

----------------------------------------------------------------------------
(* Vocabulary of the properties *)

(* The text is absent or holds nothing but whitespace. *)
Blank(v) == ~HasText(v) \/ \A k \in 1..Len(v.text) : v.text[k] \in Whitespace

(* The verse the loop is at. *)
AtVerse == verses[i]

(* The previous input verse's number + 1. *)
ExpectedHere == verses0[i - 1].number + 1

Range(s) == {s[k] : k \in 1..Len(s)}

(* The entries this call has appended to the log. *)
Appended == SubSeq(verseLog, Len(log0) + 1, Len(verseLog))

Missing(a, b, ctx) == [type |-> "missing", start |-> a, end |-> b, context |-> ctx]
Empty(a, b, ctx) == [type |-> "empty", start |-> a, end |-> b, context |-> ctx]

V(n, t) == [number |-> n, text |-> t]

ScenarioA == <<V(1, <<"A">>), V(2, <<>>), V(3, <<"A">>)>>
ScenarioB == <<V(1, <<"A">>), V(2, <<"A">>), V(5, <<"A">>)>>

(* A gap is declared at the verse the loop is at. *)
GapHere == /\ pc = "gap" /\ i <= Len(verses)
           /\ lastVerse # null
           /\ AtVerse.number > ExpectedHere

(* An empty verse is met while a kept predecessor exists. *)
EmptyHere == /\ pc = "text"
             /\ Blank(AtVerse)
             /\ lastVerse # null

(* C1: when the loop reaches a verse whose number exceeds the previous     *)
(* input verse's number + 1 and a verse has been kept, the step sets the   *)
(* last kept verse's endNumber to v.number - 1, sets fixed and appends     *)
(* exactly one 'missing' entry [expected, v.number - 1] with the context;  *)
(* for [{1,A},{2,B},{5,C}] verse 2 ends with endNumber 4 and the log holds *)
(* exactly the one 'missing' entry [3,4].                                  *)
C1_GapMerge ==
    /\ [][GapHere =>
            /\ verses'[lastVerse] = SetEndNumber(verses[lastVerse], AtVerse.number - 1)
            /\ \A k \in 1..Len(verses) : k # lastVerse => verses'[k] = verses[k]
            /\ fixed'
            /\ verseLog' = Append(verseLog,
                                  Missing(ExpectedHere, AtVerse.number - 1, context))]_vars
    /\ [](pc = "done" /\ verses0 = ScenarioB =>
            /\ verses[2].endNumber = 4
            /\ ~HasEndNumber(verses[1]) /\ ~HasEndNumber(verses[3])
            /\ Appended = <<Missing(3, 4, context)>>
            /\ chapterFixed)

C1_Witness ==
    /\ pc = "done" /\ verses0 = ScenarioB
    /\ verses[2].endNumber = 4
    /\ Appended = <<Missing(3, 4, context)>>

(* C2: an empty verse met when a kept predecessor exists is not retained,  *)
(* sets the last kept verse's endNumber to its number and appends exactly  *)
(* one 'empty' entry [v.number, v.number]; when the same verse also closed *)
(* a gap, the 'missing' entry precedes the 'empty' one and the             *)
(* predecessor's endNumber ends at v.number.                               *)
C2_EmptyMerge ==
    /\ [][EmptyHere =>
            /\ result' = result
            /\ lastVerse' = lastVerse
            /\ verses'[lastVerse] = SetEndNumber(verses[lastVerse], AtVerse.number)
            /\ fixed'
            /\ verseLog' = Append(verseLog,
                                  Empty(AtVerse.number, AtVerse.number, context))
            /\ (AtVerse.number > ExpectedHere =>
                  /\ Len(verseLog) > Len(log0)
                  /\ verseLog[Len(verseLog)] =
                         Missing(ExpectedHere, AtVerse.number - 1, context)
                  /\ verses[lastVerse].endNumber = AtVerse.number - 1)]_vars
    /\ [](pc = "done" =>
            /\ \A k \in Range(result) : ~Blank(verses0[k])
            /\ (lastVerse # null =>
                  \A k \in 1..Len(verses0) :
                      (k > result[1] /\ Blank(verses0[k])) => k \notin Range(chapter)))
    /\ [](pc = "done" /\ verses0 = ScenarioA =>
            /\ Deref(chapter, verses) =
                  <<[number |-> 1, text |-> <<"A">>, endNumber |-> 2], V(3, <<"A">>)>>
            /\ Appended = <<Empty(2, 2, context)>>)

(* A verse both closed a gap and was empty: two entries, 'missing' first. *)
C2_Witness ==
    /\ pc = "done"
    /\ Len(verses0) = 2
    /\ verses0[2] = V(4, <<" ">>)
    /\ Appended = <<Missing(verses0[1].number + 1, 3, context), Empty(4, 4, context)>>
    /\ verses[1].endNumber = 4
    /\ chapter = <<1>>

(* Every verse has a non-blank text and no number exceeds its predecessor's + 1. *)
ZeroDefects(vs) ==
    /\ \A k \in 1..Len(vs) : ~Blank(vs[k])
    /\ \A k \in 2..Len(vs) : vs[k].number <= vs[k - 1].number + 1

(* C3: for a chapter with zero defects processVerses returns fixed = false *)
(* and the same verses in the same order, adds no endNumber, appends       *)
(* nothing to the log, and the host leaves chapter.verses as it was.       *)
C3_Identity ==
    (pc \in {"returned", "done"} /\ ZeroDefects(verses0)) =>
        /\ ~fixed
        /\ result = [k \in 1..Len(verses0) |-> k]
        /\ verses = verses0
        /\ verseLog = log0
        /\ (pc = "done" => /\ chapter = [k \in 1..Len(verses0) |-> k]
                           /\ ~chapterFixed)

C3_Witness ==
    /\ pc = "done"
    /\ Len(verses0) = MaxVerses
    /\ ZeroDefects(verses0)
    /\ \E k \in 1..Len(verses0) : HasEndNumber(verses0[k])
    /\ ~chapterFixed

(* C4: a chapter whose first verse is empty drops that verse and records   *)
(* no defect for it; a first verse numbered above 1 records no defect; a   *)
(* gap met before any verse has been kept leaves the log and every         *)
(* endNumber alone.                                                        *)
C4_LeadingDefect ==
    /\ (pc = "done" /\ Len(verses0) > 0 /\ Blank(verses0[1])) => 1 \notin Range(chapter)
    /\ lastVerse = null => (verseLog = log0 /\ verses = verses0 /\ ~fixed)

(* The part of C4 that is about the call alone: the returned list.        *)
C4_ReturnedList ==
    /\ (pc \in {"returned", "done"} /\ Len(verses0) > 0 /\ Blank(verses0[1]))
          => 1 \notin Range(result)
    /\ lastVerse = null => (verseLog = log0 /\ verses = verses0 /\ ~fixed)

C4_LeadingKept ==
    /\ pc = "done"
    /\ verses0 = <<V(1, <<>>), V(3, <<"A">>)>>
    /\ result = <<2>>
    /\ chapter = <<1, 2>>

NonDecreasing(vs) == \A k \in 2..Len(vs) : vs[k].number >= vs[k - 1].number

(* Every assignment of the step leaves endNumber >= number, and a merge   *)
(* into a verse already merged into does not lower its endNumber.         *)
EndNumberGrows ==
    \A k \in assigned' :
        verses'[k] # verses[k] \/ k \notin assigned =>
            /\ verses'[k].endNumber >= verses'[k].number
            /\ (k \in assigned => verses'[k].endNumber >= verses[k].endNumber)

(* C9 as stated: for every input verse sequence, every assignment leaves  *)
(* endNumber >= number and a later merge never lowers it.                 *)
C9_AnyInput == [][EndNumberGrows]_vars

(* C9, amended: the same, for every input whose verse numbers never       *)
(* decrease.                                                              *)
C9_NonDecreasingInput == [][NonDecreasing(verses0) => EndNumberGrows]_vars

(* Three merges into the same kept verse, each raising its endNumber. *)
C9_Witness ==
    /\ pc = "done"
    /\ NonDecreasing(verses0)
    /\ verses0 = <<V(1, <<"A">>), V(3, <<>>), V(4, <<>>)>>
    /\ verses[1].endNumber = 4
    /\ Len(Appended) = 3

(* The numbers of the verses strictly increase. *)
StrictlyIncreasing(vs) == \A k \in 2..Len(vs) : vs[k].number > vs[k - 1].number

NoEndNumber(vs) == \A k \in 1..Len(vs) : ~HasEndNumber(vs[k])

(* The chapters the range coverage is stated for. *)
Coverable(vs) ==
    /\ Len(vs) >= 1
    /\ StrictlyIncreasing(vs)
    /\ ~Blank(vs[1])
    /\ NoEndNumber(vs)

(* The verses processVerses returns. *)
Kept == Deref(result, verses)

(* endNumber, taken as number when unset *)
RangeEnd(v) == IF HasEndNumber(v) THEN v.endNumber ELSE v.number

(* The numbers a retained verse stands for. *)
Covered(v) == v.number..RangeEnd(v)

(* C11: for a chapter whose verse numbers strictly increase, whose first  *)
(* verse has non-empty text and whose verses carry no endNumber, the      *)
(* ranges [number, endNumber] of the verses processVerses returns are, in *)
(* output order, pairwise disjoint and contiguous, and together they are  *)
(* exactly the numbers from the first input verse's number to the last    *)
(* input verse's number; every returned verse has non-empty text, and the *)
(* returned verses are input verses in their original relative order.     *)
C11_RangeCoverage ==
    pc \in {"returned", "done"} /\ Coverable(verses0) =>
        /\ \A k \in 1..Len(Kept) : Covered(Kept[k]) # {}
        /\ \A j, k \in 1..Len(Kept) :
              j # k => Covered(Kept[j]) \cap Covered(Kept[k]) = {}
        /\ \A k \in 1..(Len(Kept) - 1) :
              RangeEnd(Kept[k]) + 1 = Kept[k + 1].number
        /\ UNION {Covered(Kept[k]) : k \in 1..Len(Kept)}
              = verses0[1].number..verses0[Len(verses0)].number
        /\ \A k \in 1..Len(Kept) : ~Blank(Kept[k])
        /\ \A k \in 1..Len(result) :
              /\ Kept[k].number = verses0[result[k]].number
              /\ Kept[k].text = verses0[result[k]].text
        /\ \A k \in 2..Len(result) : result[k] > result[k - 1]

(* An empty verse and a gap folded into verse 1, which then stands for 1-4. *)
C11_Witness ==
    /\ pc = "returned"
    /\ Coverable(verses0)
    /\ verses0 = <<V(1, <<"A">>), V(2, <<>>), V(5, <<"A">>)>>
    /\ Len(Kept) = 2
    /\ Covered(Kept[1]) = 1..4
    /\ Covered(Kept[2]) = {5}

----------------------------------------------------------------------------
(* Properties of the batch run *)

(* The chapters of the file at f as they were read, each with its context. *)
ChaptersRead ==
    IF ~content.valid \/ ~readBibleFile(content).ok THEN {}
    ELSE LET books == BooksOf(readBibleFile(content).wrapper.data)
         IN  IF books = JsUndefined \/ books.t # "array" THEN {}
             ELSE UNION { {[context |-> <<books.items[b].name, books.items[b].chapters[c].number>>,
                            verses |-> books.items[b].chapters[c].verses] :
                              c \in 1..Len(books.items[b].chapters)} :
                          b \in {k \in 1..Len(books.items) : books.items[k] # JsNull} }

OutputPaths == {OutputPath(k) : k \in 1..MaxFiles + 1}

(* C5: a call of processVerses returns fixed = true exactly when it       *)
(* appended an entry; the host counts a file as fixed exactly when an     *)
(* entry was recorded for one of its chapters, writes its output exactly  *)
(* then and outside dry-run, and counts or writes at no other step.       *)
C5_FixedIffDefect ==
    /\ [](hpc = "report" =>
            \A ch \in ChaptersRead :
                LET r == processVerses(ch.verses, ch.context, <<>>)
                IN  r.fixed <=> r.verseLog # <<>>)
    /\ [][hpc = "report" =>
            /\ OutputPath(f) \notin writes
            /\ fixedCount' = fixedCount + (IF fileLog # <<>> THEN 1 ELSE 0)
            /\ writes' = IF fileLog # <<>> /\ ~FLAGS.DRY_RUN
                         THEN writes \cup {OutputPath(f)} ELSE writes]_vars
    /\ [][hpc # "report" =>
            /\ fixedCount' = fixedCount
            /\ (writes' \ writes) \cap OutputPaths = {}]_vars

(* The first file was counted and written, the second, without a defect in *)
(* its chapters, neither.                                                  *)
C5_Witness ==
    /\ hpc = "next"
    /\ f = 2
    /\ invalidCount = 0
    /\ fixedCount = 1
    /\ ~bibleWasModified
    /\ fileLog = <<>>
    /\ Cardinality(ChaptersRead) = MaxChapters
    /\ writes = {OutputPath(1)}

(* C6: under --dry-run the run writes no file and creates no directory,  *)
(* whatever the other flags.                                             *)
C6_DryRunWritesNothing ==
    FLAGS.DRY_RUN => (writes = {} /\ mkdirs = {})

(* Under --dry-run without --log nothing is written. *)
C6_DryRunWithoutLog ==
    (FLAGS.DRY_RUN /\ ~FLAGS.WRITE_LOG) => (writes = {} /\ mkdirs = {})

(* The file does not parse, or its top-level value is neither an object *)
(* nor a 2-element [string, object] array.                              *)
Unreadable(c) ==
    \/ ~c.valid
    \/ /\ ~(c.raw.t = "object")
       /\ ~(/\ c.raw.t = "array"
            /\ Len(c.raw.items) = 2
            /\ c.raw.items[1].t = "string"
            /\ c.raw.items[2].t \in {"object", "array"})

(* C7: such a file is skipped: the count of skipped files rises by one, *)
(* nothing is written for it, the loop goes on to the next file or the  *)
(* summary; and no error ends the batch before the summary.             *)
C7_ErrorIsolation ==
    /\ [][(hpc = "parse" /\ Unreadable(content)) =>
            /\ invalidCount' = invalidCount + 1
            /\ writes' = writes
            /\ fixedCount' = fixedCount
            /\ hpc' = IF f < nFiles THEN "read" ELSE "summary"]_vars
    /\ [](hpc # "crashed")

(* The part of C7 about the files readBibleFile rejects. *)
C7_SkipsUnreadable ==
    [][(hpc = "parse" /\ Unreadable(content)) =>
            /\ invalidCount' = invalidCount + 1
            /\ writes' = writes
            /\ fixedCount' = fixedCount
            /\ hpc' = IF f < nFiles THEN "read" ELSE "summary"]_vars

----------------------------------------------------------------------------
(* Properties of the grouping pass *)

GroupedValues == Deref(grouped, gHeap)

(* The incoming entry continues the last grouped entry. *)
Continues ==
    /\ grouped # <<>>
    /\ GroupedValues[Len(grouped)].type = gHeap[gi].type
    /\ GroupedValues[Len(grouped)].context = gHeap[gi].context
    /\ gHeap[gi].start = GroupedValues[Len(grouped)].end + 1

(* C8: the last grouped entry's end becomes the incoming entry's end     *)
(* exactly when type and context agree and start = last.end + 1;         *)
(* otherwise a copy of the incoming entry is appended. No group before   *)
(* the last changes, the list keeps its order, and the entries passed in *)
(* are not mutated. 'empty' [5,5] and [6,6] of one context become 5-6.   *)
C8_GroupingRule ==
    /\ [][(gpc = "scan" /\ gi <= Len(gLog)) =>
            IF Continues
            THEN /\ grouped' = grouped
                 /\ Deref(grouped', gHeap') =
                        [GroupedValues EXCEPT ![Len(grouped)].end = gHeap[gi].end]
            ELSE /\ Len(grouped') = Len(grouped) + 1
                 /\ SubSeq(grouped', 1, Len(grouped)) = grouped
                 /\ grouped'[Len(grouped')] \notin 1..Len(gLog)
                 /\ Deref(grouped', gHeap') = Append(GroupedValues, gLog[gi])]_vars
    /\ [](\A k \in 1..Len(gLog) : gHeap[k] = gLog[k])
    /\ [](\A c \in Contexts :
            (gpc = "grouped" /\ gLog = <<Empty(5, 5, c), Empty(6, 6, c)>>)
                => GroupedValues = <<Empty(5, 6, c)>>)

(* Two numerically contiguous entries separated by an unrelated one stay apart. *)
C8_Witness ==
    /\ gpc = "grouped"
    /\ gLog = <<Empty(5, 5, <<"Gen", 1>>), Empty(6, 6, <<"Gen", 1>>),
                Empty(7, 7, <<"Gen", 2>>)>>
    /\ GroupedValues = <<Empty(5, 6, <<"Gen", 1>>), Empty(7, 7, <<"Gen", 2>>)>>

(* C10: the grouping pass applied to its own grouped output returns the *)
(* same list.                                                           *)
C10_GroupingIdempotent ==
    gpc = "regrouped" => regrouped = GroupedValues

(* A log that was merged into several groups, grouped again. *)
C10_Witness ==
    /\ gpc = "regrouped"
    /\ Len(gLog) = MaxLog
    /\ Len(grouped) = 2
    /\ GroupedValues[1].end + 1 = GroupedValues[2].start
    /\ GroupedValues[1].type = GroupedValues[2].type
    /\ regrouped = GroupedValues

====
